---- MODULE Spec2Model ----
(***************************************************************************)
(* Setu-AI: the sensor-to-health classification and alerting pipeline.     *)
(*                                                                         *)
(* Two backends are modelled.                                              *)
(*   - the cooldown backend (POST /data, GET /latest): latestData,         *)
(*     lastAlertTime, ALERT_COOLDOWN_MS, computePredictions;               *)
(*   - the flag backend (serial / simulation ingest, WebSocket fan-out):   *)
(*     latestSensorData, isCriticalAlertSent, checkAndTriggerAlert,        *)
(*     sendCriticalAlert.                                                  *)
(*                                                                         *)
(* Numbers are fixed point: axis values, scores and random draws are       *)
(* integers in thousandths; times are integer milliseconds.                *)
(***************************************************************************)
EXTENDS Integers, Sequences, FiniteSets, TLC

VARIABLES
    now,                 \* Date.now(), in ms
    latestData,          \* cooldown backend: Null or [data, prediction]
    lastAlertTime,       \* cooldown backend: time of the last alert, 0 at start
    pending,             \* cooldown backend: handlers suspended at `await sendMail`
    mailLog,             \* cooldown backend: the times transporter.sendMail was called
    res,                 \* cooldown backend: the HTTP response the latest step wrote
    log,                 \* cooldown backend: the console line the latest step wrote
    hist,                \* history: about the latest accepted reading
    burst,               \* history: the current run of consecutive severe readings
    latestSensorData,    \* flag backend: the latest reading
    isCriticalAlertSent, \* flag backend: alert flag
    flagPending,         \* flag backend: sendCriticalAlert calls suspended at `await sendMail`
    flagSends,           \* flag backend: number of transporter.sendMail calls so far
    failedUnreset,       \* history: a send failed and the flag was not reset since
    emailConfigured,     \* flag backend: EMAIL_USER, EMAIL_PASS and recipient are set
    serialState,         \* flag backend: "detecting", "open", "closed", "failed" or "none"
    simTimers,           \* flag backend: number of setInterval timers startSimulation started
    clients,             \* flag backend: the WebSocket subscribers (wss.clients and those gone)
    published,           \* history: the values published so far, in order
    mpuHistory,          \* polling dashboard: the history buffer of each channel
    fetched,             \* history: the bodies updateHistory was given, in order
    graphHistory,        \* stream dashboard: dataHistory and the graph history buffers
    streamed,            \* history: the messages ws.onmessage was given, in order
    sample,              \* classifier: the reading and the two draws it is applied to
    result,              \* classifier: Null or the prediction computed for sample
    retryAttempt,        \* polling dashboard: the retry counter
    connectionStatus,    \* polling dashboard: 'connecting', 'connected' or 'disconnected'
    error,               \* polling dashboard: Null or the message shown
    sensorData,          \* polling dashboard: the reading shown
    intervalId,          \* polling dashboard: Null or the live interval, with the time it fires next
    inflight,            \* polling dashboard: the fetchMpuData calls not completed yet
    pollClock,           \* polling dashboard: time since mount, in ms
    fails,               \* history: failed fetches since the last successful one
    issued,              \* history: number of fetchMpuData calls so far
    failedAt,            \* history: the time of the latest failed fetch
    mounted,             \* stream dashboard: the component is mounted
    streamStatus,        \* stream dashboard: its connectionStatus
    useSimulation,       \* stream dashboard: simulation mode is on
    useArduino,          \* stream dashboard: the direct Arduino connection is on
    sockets,             \* stream dashboard: readyState of every WebSocket created
    wsRef,               \* stream dashboard: wsRef.current, 0 for null
    pollingIntervalRef,  \* stream dashboard: pollingIntervalRef.current, 0 for null
    simulationIntervalRef, \* stream dashboard: simulationIntervalRef.current, 0 for null
    intervals,           \* stream dashboard: the intervals set and not cleared
    autoStart,           \* stream dashboard: the 2 s auto-start timeout is pending
    reconnects,          \* stream dashboard: number of 3 s reconnect timeouts pending
    lastLine             \* history: the latest line of the serial parser, and its number

cooldownVars == <<latestData, lastAlertTime, pending, mailLog, res, log, hist>>
wsVars == <<clients, published>>
flagVars == <<latestSensorData, isCriticalAlertSent, flagPending, flagSends,
              failedUnreset, emailConfigured, serialState, simTimers, wsVars>>
dashVars == <<mpuHistory, fetched, graphHistory, streamed>>
predVars == <<sample, result>>
pollVars == <<retryAttempt, connectionStatus, error, sensorData, intervalId, inflight,
              pollClock, fails, issued, failedAt>>
ardVars == <<mounted, streamStatus, useSimulation, useArduino, sockets, wsRef,
             pollingIntervalRef, simulationIntervalRef, intervals, autoStart, reconnects>>
uiVars == <<dashVars, predVars, pollVars, ardVars>>
frontVars == <<uiVars, lastLine>>
vars == <<now, cooldownVars, burst, flagVars, frontVars>>

----------------------------------------------------------------------------
(* Bounds of the model *)

\* The clock at start-up, as an offset epoch: only differences of times matter,
\* except that the real epoch clock is far more than one cooldown after 0.
StartNow == 100000

\* How long after start-up the clock is followed.
Horizon == 61000

MaxTime == StartNow + Horizon

\* The length of a burst of severe readings, and the time it arrives within (ms)
BurstLen == 10

BurstWindow == 1000

MaxRun == BurstLen + 1

\* The amounts of time that pass between two events: sums of them give gaps of
\* 0, 1 and 2 ms, of half a cooldown, of exactly one cooldown and of 1 ms more.
TimeSteps == {30000, 30001}

----------------------------------------------------------------------------
(* Values *)

\* JavaScript null (latestData before the first accepted reading)
Null == [null |-> TRUE]

\* JavaScript NaN, for magnitudes and scores, which are otherwise >= 0
NaN == -1

ALERT_COOLDOWN_MS == 60000

Axes == {"ax", "ay", "az", "gx", "gy", "gz"}

Has(data, f) == f \in DOMAIN data

\* a request body carrying all six axis fields
Reading(ax, ay, az, gx, gy, gz) ==
    [ax |-> ax, ay |-> ay, az |-> az, gx |-> gx, gy |-> gy, gz |-> gz]

\* the reading without field f (a JSON body in which the key is missing)
Without(data, f) == [g \in (DOMAIN data) \ {f} |-> data[g]]

ZeroReading     == Reading(0, 0, 0, 0, 0, 0)
FlatReading     == Reading(300, 400, 0, 0, 0, 0)        \* az = 0, at rest on its side
NormalReading   == Reading(200, 300, 600, 0, 0, 0)      \* |a| = 0.7
MinorReading    == Reading(1000, 200, 200, 100, 0, 0)
ModerateReading == Reading(1000, 2000, 2000, 0, 0, 0)   \* |a| = 3
SevereReading   == Reading(1000, 2000, 2000, 6000, 3000, 2000)  \* |a| = 3, |g| = 7
ClampedReading  == Reading(2000, 3000, 6000, 2000, 3000, 6000)  \* |a| = 7, |g| = 7
EdgeReading     == Reading(561, 748, 10, 0, 0, 0)       \* |a| = 0.935: score 0.1496

\* The request bodies POST /data is given
Readings ==
    {ZeroReading, FlatReading, NormalReading, ModerateReading, SevereReading,
     EdgeReading}
    \cup {Without(NormalReading, f) : f \in {"ax", "gx", "gz"}}

\* The values of Math.random(), in thousandths
RandomDraws == {0, 999}

\* The pairs of draws one request makes (forecast jitter, confidence jitter)
DrawPairs == {<<0, 999>>, <<999, 0>>}

----------------------------------------------------------------------------
(* computePredictions *)

RECURSIVE SqrtBetween(_, _, _)
\* the largest r in lo..hi with r * r <= n
SqrtBetween(n, lo, hi) ==
    IF lo >= hi THEN lo
    ELSE LET mid == (lo + hi + 1) \div 2
         IN  IF mid * mid <= n THEN SqrtBetween(n, mid, hi)
                               ELSE SqrtBetween(n, lo, mid - 1)

\* Math.sqrt on a fixed-point sum of squares (NaN stays NaN)
Sqrt(n) == IF n = NaN THEN NaN ELSE SqrtBetween(n, 0, 46000)

\* x * x + y * y + z * z, NaN when an operand is undefined
SumSq(data, fx, fy, fz) ==
    IF Has(data, fx) /\ Has(data, fy) /\ Has(data, fz)
    THEN data[fx] * data[fx] + data[fy] * data[fy] + data[fz] * data[fz]
    ELSE NaN

Min(a, b) == IF a < b THEN a ELSE b

\* (variant: no clamp)
MathMin1_none(x) == x

\* Math.min(1.0, x) in millionths (NaN stays NaN)
MathMin1(x) == IF x = NaN THEN NaN ELSE Min(1000000, x)

\* JavaScript x < y on numbers: false when either is NaN
Less(x, y) == x # NaN /\ y # NaN /\ x < y

\* parseFloat(x.toFixed(3)): millionths rounded to thousandths
ToFixed3(x) == IF x = NaN THEN NaN ELSE (x + 500) \div 1000

\* (variant: the thresholds belong to the lower tier)
Tier_le(degradation) ==
    IF degradation = NaN THEN "severe"
    ELSE IF degradation <= 150000 THEN "normal"
    ELSE IF degradation <= 300000 THEN "minor"
    ELSE IF degradation <= 600000 THEN "moderate"
    ELSE "severe"

\* the tier of a degradation (in millionths)
Tier(degradation) ==
    IF Less(degradation, 150000) THEN "normal"
    ELSE IF Less(degradation, 300000) THEN "minor"
    ELSE IF Less(degradation, 600000) THEN "moderate"
    ELSE "severe"

\* (accel_mag * 0.8 + gyro_mag * 0.2) / 5.0, in millionths
RawDegradation(data) ==
    LET accel_mag == Sqrt(SumSq(data, "ax", "ay", "az"))
        gyro_mag == Sqrt(SumSq(data, "gx", "gy", "gz"))
    IN  IF accel_mag = NaN \/ gyro_mag = NaN THEN NaN
        ELSE (accel_mag * 8 + gyro_mag * 2) * 20

\* (variant: the floor of the forecast is added to the score)
Degradation_biased(data) == MathMin1(RawDegradation(data) + 10000)

\* const degradation = Math.min(1.0, rawDegradation), in millionths
Degradation(data) == MathMin1(RawDegradation(data))

\* the tier of a score in thousandths
TierOfScore(score) == Tier(IF score = NaN THEN NaN ELSE score * 1000)

\* (variant: the tier is taken from the rounded score)
computePredictions_rounded(data, r1, r2) ==
    LET degradation == Degradation(data)
        forecast_30d ==
            IF degradation = NaN THEN NaN
            ELSE MathMin1(degradation + 10000 + r1 * 90)
        confidence == 1000000 - r2 * 80
    IN  [degradation_score |-> ToFixed3(degradation),
         condition |-> TierOfScore(ToFixed3(degradation)),
         forecast_30d |-> ToFixed3(forecast_30d),
         confidence |-> ToFixed3(confidence)]

\* r1, r2: the two Math.random() draws, in thousandths
computePredictions(data, r1, r2) ==
    LET degradation == Degradation(data)
        forecast_30d ==
            IF degradation = NaN THEN NaN
            ELSE MathMin1(degradation + 10000 + r1 * 90)
        confidence == 1000000 - r2 * 80
    IN  [degradation_score |-> ToFixed3(degradation),
         condition |-> Tier(degradation),
         forecast_30d |-> ToFixed3(forecast_30d),
         confidence |-> ToFixed3(confidence)]

\* computePredictions of the polling dashboard: the same arithmetic
ClientPredictions(data, r1, r2) == computePredictions(data, r1, r2)

\* the predictions of the request bodies, for every pair of random draws
Predictions ==
    [data \in Readings |->
        [r \in RandomDraws \X RandomDraws |-> computePredictions(data, r[1], r[2])]]

----------------------------------------------------------------------------
(* The history buffers of the dashboards *)

MAX_POINTS == 50

maxPoints == 50

\* the history buffers of the polling dashboard
MpuChannels == {"ax", "ay", "az", "gx", "gy", "gz", "temperature_c", "humidity_percent"}

\* dataHistory and the graph histories of the stream dashboard
GraphChannels == {"data", "accelX", "accelY", "accelZ", "gyroX", "gyroY", "gyroZ"}

\* JavaScript undefined, as a value of a history buffer (readings are >= 0)
Undefined == -2

\* data.f
Field(data, f) == IF Has(data, f) THEN data[f] ELSE Undefined

\* (variant: the oldest k values are kept)
SliceLast_first(s, k) == IF Len(s) <= k THEN s ELSE SubSeq(s, 1, k)

\* s.slice(-k)
SliceLast(s, k) == IF Len(s) <= k THEN s ELSE SubSeq(s, Len(s) - k + 1, Len(s))

\* setXHistory(prev => [...prev, v].slice(-k))
Push(prev, v, k) == SliceLast(Append(prev, v), k)

\* updateHistory(data)
updateHistory(data) ==
    mpuHistory' = [ch \in MpuChannels |-> Push(mpuHistory[ch], Field(data, ch), MAX_POINTS)]

\* data.sensors.accelerometer.x, data.sensors.gyroscope?.x || 0, and so on
GraphValue(data, ch) ==
    CASE ch = "data" -> data.n
      [] ch = "accelX" -> data.accelerometer.x
      [] ch = "accelY" -> data.accelerometer.y
      [] ch = "accelZ" -> data.accelerometer.z
      [] ch = "gyroX" -> IF Has(data, "gyroscope") THEN data.gyroscope.x ELSE 0
      [] ch = "gyroY" -> IF Has(data, "gyroscope") THEN data.gyroscope.y ELSE 0
      [] ch = "gyroZ" -> IF Has(data, "gyroscope") THEN data.gyroscope.z ELSE 0

\* ws.onmessage: dataHistory keeps 50, the graph histories keep maxPoints
onmessage(data) ==
    graphHistory' = [ch \in GraphChannels |->
                       Push(graphHistory[ch], GraphValue(data, ch),
                            IF ch = "data" THEN 50 ELSE maxPoints)]

----------------------------------------------------------------------------
(* The cooldown backend: POST /data *)

\* !data.ax : undefined (a missing key) and 0 are both falsy
Falsy(data, f) == ~Has(data, f) \/ data[f] = 0

\* !data.ax || !data.ay || !data.az
Incomplete(data) == Falsy(data, "ax") \/ Falsy(data, "ay") \/ Falsy(data, "az")

\* (variant: the comparison written >=)
CooldownElapsed_ge(t, last) == t - last >= ALERT_COOLDOWN_MS

\* now - lastAlertTime > ALERT_COOLDOWN_MS
CooldownElapsed(t, last) == t - last > ALERT_COOLDOWN_MS

\* the condition of the latest accepted reading, "none" before the first
LatestCondition == IF latestData = Null THEN "none" ELSE latestData.prediction.condition

\* (variant: the cooldown test left out)
ShouldAlert_noCooldown(prediction, t, last) == prediction.condition = "severe"

\* (variant: a non-severe reading re-arms the alert)
ShouldAlert_rearm(prediction, t, last) ==
    /\ prediction.condition = "severe"
    /\ CooldownElapsed(t, last) \/ LatestCondition \notin {"none", "severe"}

\* the decision to send an alert for a prediction at time t
ShouldAlert(prediction, t, last) ==
    prediction.condition = "severe" /\ CooldownElapsed(t, last)

NoResponse == [code |-> 0]

Response400 == [code |-> 400, error |-> "Incomplete MPU data"]

Response200(prediction) == [code |-> 200, status |-> "ok", prediction |-> prediction]

\* (variant: the reading is stored before it is validated)
Reject_stored(data, prediction) ==
    /\ res' = Response400
    /\ log' = ""
    /\ latestData' = [data |-> data, prediction |-> prediction]
    /\ UNCHANGED <<lastAlertTime, pending, mailLog, hist>>

\* return res.status(400).json(...): nothing else happens
Reject(data, prediction) ==
    /\ res' = Response400
    /\ log' = ""
    /\ UNCHANGED <<latestData, lastAlertTime, pending, mailLog, hist>>

\* (variant: lastAlertTime = now left out)
Accept_noStamp(data, prediction) ==
    /\ latestData' = [data |-> data, prediction |-> prediction]
    /\ log' = "DATA RECEIVED"
    /\ hist' = [prev |-> LatestCondition, at |-> now, since |-> now - lastAlertTime,
                alerted |-> ShouldAlert(prediction, now, lastAlertTime),
                latest |-> [data |-> data, prediction |-> prediction]]
    /\ IF ShouldAlert(prediction, now, lastAlertTime)
       THEN /\ mailLog' = Append(mailLog, now)
            /\ pending' = pending \cup {[at |-> now, prediction |-> prediction]}
            /\ res' = NoResponse
       ELSE /\ res' = Response200(prediction)
            /\ UNCHANGED <<mailLog, pending>>
    /\ UNCHANGED lastAlertTime

\* (variant: the answer waits for the sends that are outstanding)
Accept_queued(data, prediction) ==
    /\ latestData' = [data |-> data, prediction |-> prediction]
    /\ log' = "DATA RECEIVED"
    /\ hist' = [prev |-> LatestCondition, at |-> now, since |-> now - lastAlertTime,
                alerted |-> ShouldAlert(prediction, now, lastAlertTime),
                latest |-> [data |-> data, prediction |-> prediction]]
    /\ IF ShouldAlert(prediction, now, lastAlertTime)
       THEN /\ lastAlertTime' = now
            /\ mailLog' = Append(mailLog, now)
            /\ pending' = pending \cup {[at |-> now, prediction |-> prediction]}
            /\ res' = NoResponse
       ELSE IF pending # {}
       THEN /\ pending' = pending \cup {[at |-> now, prediction |-> prediction]}
            /\ res' = NoResponse
            /\ UNCHANGED <<lastAlertTime, mailLog>>
       ELSE /\ res' = Response200(prediction)
            /\ UNCHANGED <<lastAlertTime, mailLog, pending>>

\* (variant: the reading is stored and answered, the alert test is left for later)
Accept_unevaluated(data, prediction) ==
    /\ latestData' = [data |-> data, prediction |-> prediction]
    /\ log' = "DATA RECEIVED"
    /\ res' = Response200(prediction)
    /\ UNCHANGED <<lastAlertTime, mailLog, pending, hist>>

\* (variant: every severe reading stamps lastAlertTime)
Accept_stamped(data, prediction) ==
    /\ latestData' = [data |-> data, prediction |-> prediction]
    /\ log' = "DATA RECEIVED"
    /\ hist' = [prev |-> LatestCondition, at |-> now, since |-> now - lastAlertTime,
                alerted |-> ShouldAlert(prediction, now, lastAlertTime),
                latest |-> [data |-> data, prediction |-> prediction]]
    /\ lastAlertTime' = IF prediction.condition = "severe" THEN now ELSE lastAlertTime
    /\ IF ShouldAlert(prediction, now, lastAlertTime)
       THEN /\ mailLog' = Append(mailLog, now)
            /\ pending' = pending \cup {[at |-> now, prediction |-> prediction]}
            /\ res' = NoResponse
       ELSE /\ res' = Response200(prediction)
            /\ UNCHANGED <<mailLog, pending>>

\* the handler from line 57 up to its first suspension or its response
Accept(data, prediction) ==
    /\ latestData' = [data |-> data, prediction |-> prediction]
    /\ log' = "DATA RECEIVED"
    /\ IF ShouldAlert(prediction, now, lastAlertTime)
       THEN /\ lastAlertTime' = now
            /\ mailLog' = Append(mailLog, now)
            \* await transporter.sendMail(mailOptions): the handler is suspended
            /\ pending' = pending \cup {[at |-> now, prediction |-> prediction]}
            /\ res' = NoResponse
            /\ hist' = [prev |-> LatestCondition, at |-> now,
                        since |-> now - lastAlertTime, alerted |-> TRUE,
                        latest |-> [data |-> data, prediction |-> prediction]]
       ELSE /\ res' = Response200(prediction)
            /\ hist' = [prev |-> LatestCondition, at |-> now,
                        since |-> now - lastAlertTime, alerted |-> FALSE,
                        latest |-> [data |-> data, prediction |-> prediction]]
            /\ UNCHANGED <<lastAlertTime, mailLog, pending>>

Handle(data, r1, r2) ==
    IF Incomplete(data)
    THEN Reject(data, Predictions[data][<<r1, r2>>])
    ELSE Accept(data, Predictions[data][<<r1, r2>>])

\* app.post("/data") receives one request
PostData(data, r1, r2) ==
    /\ Handle(data, r1, r2)
    /\ UNCHANGED <<now, frontVars, burst, flagVars>>

\* sendMail resolved: log, then answer the suspended request
MailSent(s) ==
    /\ s \in pending
    /\ pending' = pending \ {s}
    /\ log' = "Email alert sent!"
    /\ res' = Response200(s.prediction)
    /\ UNCHANGED <<now, frontVars, latestData, lastAlertTime, mailLog, hist, burst, flagVars>>

\* sendMail rejected: the catch block logs, then the request is answered
MailFailed(s) ==
    /\ s \in pending
    /\ pending' = pending \ {s}
    /\ log' = "Email error"
    /\ res' = Response200(s.prediction)
    /\ UNCHANGED <<now, frontVars, latestData, lastAlertTime, mailLog, hist, burst, flagVars>>

\* the body of "No data yet"
NoDataYet == [message |-> "No data yet"]

ResponseLatest(body) == [code |-> 200, body |-> body]

\* (variant: the sentinel is answered whatever is stored)
LatestBody_noData(latest) == NoDataYet

\* if (!latestData) return res.json({ message: "No data yet" }); res.json(latestData)
LatestBody(latest) == IF latest = Null THEN NoDataYet ELSE latest

\* app.get("/latest") receives one request
GetLatest ==
    /\ res' = ResponseLatest(LatestBody(latestData))
    /\ log' = ""
    /\ UNCHANGED <<now, frontVars, latestData, lastAlertTime, pending, mailLog, hist, burst, flagVars>>

\* time passes
Tick(d) ==
    /\ now + d <= MaxTime
    /\ now' = now + d
    /\ UNCHANGED <<cooldownVars, burst, flagVars, frontVars>>

\* latestSensorData as the module initialises it
InitialSensorData == [status |-> "normal", timestamp |-> StartNow, source |-> "initial"]

\* How often one subscriber connects
MaxJoins == 2

\* The WebSocket subscribers that are followed
ClientIds == {1, 2}

\* a subscriber: the readyState of its socket ("NONE" before it first connects),
\* whether the peer of its open socket has silently gone, how often it
\* connected, and the messages delivered to it: the value, the number of the
\* publish it is of (0 for the value held at start-up) and whether it was
\* sent on connection
NoClient == [readyState |-> "NONE", dead |-> FALSE, joins |-> 0, inbox |-> <<>>]

\* hist: the condition of the accepted reading before the latest one, when the
\* latest one was handled, now - lastAlertTime as its handler read it,
\* whether its handler called sendMail, and the reading with its prediction
NoHist == [prev |-> "none", at |-> 0, since |-> 0, alerted |-> FALSE, latest |-> Null]

NoBurst == [count |-> 0, start |-> 0, sends |-> 0, fresh |-> FALSE, gap |-> 0,
            before |-> 0, beforeSpan |-> 0]

InitCooldown ==
    /\ latestData = Null
    /\ lastAlertTime = 0
    /\ pending = {}
    /\ mailLog = <<>>
    /\ res = NoResponse
    /\ log = "Server running"
    /\ hist = NoHist
    /\ burst = NoBurst

\* no subscriber has connected, nothing was published
InitWs ==
    /\ clients = [c \in ClientIds |-> NoClient]
    /\ published = <<>>

InitFlagIdle ==
    /\ latestSensorData = InitialSensorData
    /\ isCriticalAlertSent = FALSE
    /\ flagPending = 0
    /\ flagSends = 0
    /\ failedUnreset = FALSE
    /\ emailConfigured = TRUE
    /\ serialState = "detecting"
    /\ simTimers = 0
    /\ InitWs

\* the reading the polling dashboard shows before the first answer
initialData ==
    [ax |-> 0, ay |-> 0, az |-> 0, gx |-> 0, gy |-> 0, gz |-> 0,
     temperature_c |-> 0, humidity_percent |-> 0]

MAX_RETRIES == 5

RAW_DATA_FETCH_INTERVAL_MS == 500

\* a fetchMpuData call: the retryAttempt its closure holds, and the await it
\* is suspended at
Fetch(id, attempt) == [id |-> id, retryAttempt |-> attempt, awaiting |-> "response"]

\* the dashboards have received nothing
InitDash ==
    /\ mpuHistory = [ch \in MpuChannels |-> <<>>]
    /\ fetched = <<>>
    /\ graphHistory = [ch \in GraphChannels |-> <<>>]
    /\ streamed = <<>>

\* the classifier is at rest on the all-zero reading
InitPred ==
    /\ sample = [data |-> ZeroReading, r1 |-> 0, r2 |-> 0]
    /\ result = Null

\* the polling dashboard is mounted: EFFECT 1 has run once
InitPoll ==
    /\ retryAttempt = 0
    /\ connectionStatus = "connecting"
    /\ error = Null
    /\ sensorData = initialData
    /\ intervalId = [fires |-> RAW_DATA_FETCH_INTERVAL_MS]
    /\ inflight = {Fetch(1, 0)}
    /\ pollClock = 0
    /\ fails = 0
    /\ issued = 1
    /\ failedAt = 0

\* the stream dashboard is mounted: the effect set the auto-start timeout
\* and called initWebSocket
InitArd ==
    /\ mounted = TRUE
    /\ streamStatus = "connecting"
    /\ useSimulation = FALSE
    /\ useArduino = FALSE
    /\ sockets = <<"CONNECTING">>
    /\ wsRef = 1
    /\ pollingIntervalRef = 0
    /\ simulationIntervalRef = 0
    /\ intervals = {}
    /\ autoStart = TRUE
    /\ reconnects = 0

\* the serial parser has delivered no line
NoLine == [n |-> 0, line |-> Null]

Init ==
    /\ now = StartNow
    /\ InitCooldown
    /\ InitFlagIdle
    /\ InitDash
    /\ InitPred
    /\ InitPoll
    /\ InitArd
    /\ lastLine = NoLine

Next ==
    \/ \E data \in Readings, r \in DrawPairs : PostData(data, r[1], r[2])
    \/ GetLatest
    \/ \E s \in pending : MailSent(s)
    \/ \E s \in pending : MailFailed(s)
    \/ \E d \in TimeSteps : Tick(d)

Spec == Init /\ [][Next]_vars

----------------------------------------------------------------------------
(* The cooldown backend under bursts of readings *)

\* The amounts of time that pass between two events in the burst scenario:
\* half a second at a time while a burst lasts, the cooldown or just more than
\* the cooldown otherwise
BurstSteps == {500, 60000, 60001}

\* The request bodies of the burst scenario
BurstReadings == {SevereReading, ModerateReading, ZeroReading}

\* burst: of the current run of consecutive severe readings that arrived within
\* BurstWindow of its first: how many, when the first was handled, how many
\* sendMail calls they made, whether no mail had been sent before the run,
\* the time since the previous sendMail at its start, and the length and the
\* duration of the run of severe readings right before it
BurstAfter(data, prediction, sent) ==
    IF Incomplete(data) THEN burst
    ELSE IF prediction.condition # "severe" THEN NoBurst
    ELSE IF burst.count > 0 /\ now - burst.start <= BurstWindow
    THEN [burst EXCEPT !.count = @ + 1, !.sends = @ + sent]
    ELSE [count |-> 1, start |-> now, sends |-> sent,
          fresh |-> mailLog = <<>>,
          gap |-> IF mailLog = <<>> THEN 0 ELSE now - mailLog[Len(mailLog)],
          before |-> burst.count, beforeSpan |-> hist.at - burst.start]

\* app.post("/data") receives one request; the run of severe readings is recorded
BurstPost(data, r1, r2) ==
    /\ Handle(data, r1, r2)
    /\ burst' = BurstAfter(data, Predictions[data][<<r1, r2>>], Len(mailLog') - Len(mailLog))
    /\ burst'.count <= MaxRun
    /\ UNCHANGED <<now, frontVars, flagVars>>

\* time passes in the burst scenario
BurstTick(d) ==
    /\ d <= BurstWindow => burst.count > 0 /\ now + d <= burst.start + BurstWindow
    /\ Tick(d)

NextBurst ==
    \/ \E data \in BurstReadings : BurstPost(data, 0, 999)
    \/ \E s \in pending : MailSent(s)
    \/ \E s \in pending : MailFailed(s)
    \/ \E d \in BurstSteps : BurstTick(d)

SpecBurst == Init /\ [][NextBurst]_vars

----------------------------------------------------------------------------
(* The flag backend: serial / simulation ingest and the alert flag *)

\* How many sendMail calls may be outstanding, how many are followed, how many
\* simulation timers are followed, and for how long the clock is followed
MaxFlagPending == 2

MaxFlagSends == 3

MaxTimers == 2

FlagHorizon == 4000

\* The statuses the simulation computes
SimStatuses == {"normal", "warning", "critical"}

\* The statuses a line of the device may carry
Statuses == SimStatuses \cup {"norm"}

\* The lines the serial parser delivers: JSON objects with or without the
\* sensors and timestamp fields, and text that is no JSON
\* a field of a parsed line: not there, there with a falsy value (0, null,
\* ""), or there with a truthy value
FieldValues == {"absent", "falsy", "truthy"}

SerialLines ==
    [json : {TRUE}, sensors : FieldValues, timestamp : FieldValues, status : Statuses]
    \cup {[json |-> FALSE, sensors |-> "absent", timestamp |-> "absent", status |-> "normal"]}

\* the 2 s period of the simulation timer
FlagSteps == {2000}

\* sendCriticalAlert up to `await transporter.sendMail`
sendCriticalAlert(data) ==
    IF ~emailConfigured
    THEN UNCHANGED <<flagPending, flagSends>>
    ELSE /\ flagPending < MaxFlagPending
         /\ flagSends < MaxFlagSends
         /\ flagPending' = flagPending + 1
         /\ flagSends' = flagSends + 1

checkAndTriggerAlert(data) ==
    IF data.status = "norm" /\ ~isCriticalAlertSent
    THEN /\ sendCriticalAlert(data)
         /\ UNCHANGED <<isCriticalAlertSent, failedUnreset>>
    ELSE IF data.status # "critical" /\ isCriticalAlertSent
    THEN /\ isCriticalAlertSent' = FALSE
         /\ failedUnreset' = FALSE
         /\ UNCHANGED <<flagPending, flagSends>>
    ELSE UNCHANGED <<isCriticalAlertSent, failedUnreset, flagPending, flagSends>>

\* sendMail resolved inside sendCriticalAlert
FlagMailSent ==
    /\ flagPending > 0
    /\ flagPending' = flagPending - 1
    /\ isCriticalAlertSent' = TRUE
    /\ UNCHANGED <<now, frontVars, cooldownVars, burst, wsVars, latestSensorData, flagSends, failedUnreset,
                   emailConfigured, serialState, simTimers>>

\* sendMail rejected inside sendCriticalAlert: the catch block logs
FlagMailFailed ==
    /\ flagPending > 0
    /\ flagPending' = flagPending - 1
    /\ failedUnreset' = TRUE
    /\ UNCHANGED <<now, frontVars, cooldownVars, burst, wsVars, latestSensorData, isCriticalAlertSent,
                   flagSends, emailConfigured, serialState, simTimers>>

\* startSimulation: one more interval timer
startSimulation == simTimers' = simTimers + 1

\* initializeSerial: no port found
NoArduinoFound ==
    /\ serialState = "detecting"
    /\ serialState' = "none"
    /\ startSimulation
    /\ UNCHANGED <<now, frontVars, cooldownVars, burst, wsVars, latestSensorData, isCriticalAlertSent,
                   flagPending, flagSends, failedUnreset, emailConfigured>>

\* initializeSerial: serialPort.open calls back with an error
SerialOpenFailed ==
    /\ serialState = "detecting"
    /\ serialState' = "failed"
    /\ startSimulation
    /\ UNCHANGED <<now, frontVars, cooldownVars, burst, wsVars, latestSensorData, isCriticalAlertSent,
                   flagPending, flagSends, failedUnreset, emailConfigured>>

\* initializeSerial: the port opened, the handlers are registered
SerialOpened ==
    /\ serialState = "detecting"
    /\ serialState' = "open"
    /\ UNCHANGED <<now, frontVars, cooldownVars, burst, wsVars, latestSensorData, isCriticalAlertSent,
                   flagPending, flagSends, failedUnreset, emailConfigured, simTimers>>

\* client.send(JSON.stringify(data)) on one subscriber: a message to a peer
\* that has gone is written to the socket and never arrives
Send(client, data, n, join) ==
    IF client.dead THEN client
    ELSE [client EXCEPT !.inbox = Append(@, [data |-> data, n |-> n, join |-> join])]

\* (variant: no readyState test, the first socket that is not open throws)
broadcastToClients_throws(data) ==
    clients' = [c \in ClientIds |->
                  IF \E b \in ClientIds : b <= c /\ clients[b].readyState \in {"CLOSING", "CLOSED"}
                  THEN clients[c]
                  ELSE IF clients[c].readyState = "OPEN" THEN Send(clients[c], data, Len(published) + 1, FALSE)
                  ELSE clients[c]]

\* wss.clients.forEach: send to every client whose readyState is OPEN
broadcastToClients(data) ==
    clients' = [c \in ClientIds |->
                  IF clients[c].readyState = "OPEN" THEN Send(clients[c], data, Len(published) + 1, FALSE)
                  ELSE clients[c]]

\* (variant: the subscribers are served before the alert check and the store)
Publish_early(data) ==
    /\ latestSensorData' = data
    /\ checkAndTriggerAlert(data)
    /\ broadcastToClients(latestSensorData)

\* latestSensorData = ...; checkAndTriggerAlert(...); broadcastToClients(...)
Publish(data) ==
    /\ latestSensorData' = data
    /\ checkAndTriggerAlert(data)
    /\ broadcastToClients(data)

\* (variant: the timestamp is not looked at)
ValidLine_noTimestamp(line) == line.json /\ line.sensors = "truthy"

\* JSON.parse succeeded and jsonData.sensors && jsonData.timestamp
ValidLine(line) == line.json /\ line.sensors = "truthy" /\ line.timestamp = "truthy"

\* parser.on('data'), whatever is recorded of it
SerialIngest(line) ==
    /\ serialState = "open"
    /\ IF ValidLine(line)
       THEN Publish([status |-> line.status, timestamp |-> now, source |-> "serial"])
       ELSE UNCHANGED <<latestSensorData, isCriticalAlertSent, failedUnreset,
                        flagPending, flagSends, clients>>
    /\ UNCHANGED <<now, uiVars, cooldownVars, burst, emailConfigured, serialState, simTimers>>

\* parser.on('data')
SerialData(line) ==
    /\ SerialIngest(line)
    /\ UNCHANGED <<published, lastLine>>

\* serialPort.on('close')
SerialClose ==
    /\ serialState = "open"
    /\ serialState' = "closed"
    /\ simTimers < MaxTimers
    /\ startSimulation
    /\ UNCHANGED <<now, frontVars, cooldownVars, burst, wsVars, latestSensorData, isCriticalAlertSent,
                   flagPending, flagSends, failedUnreset, emailConfigured>>

\* serialPort.on('error')
SerialError ==
    /\ serialState = "open"
    /\ simTimers < MaxTimers
    /\ startSimulation
    /\ UNCHANGED <<now, frontVars, cooldownVars, burst, wsVars, latestSensorData, isCriticalAlertSent,
                   flagPending, flagSends, failedUnreset, emailConfigured, serialState>>

\* one firing of a simulation timer, whatever is recorded of it
SimIngest(status) ==
    /\ simTimers > 0
    /\ Publish([status |-> status, timestamp |-> now, source |-> "simulated"])
    /\ UNCHANGED <<now, frontVars, cooldownVars, burst, emailConfigured, serialState, simTimers>>

\* one firing of a simulation timer
SimTick(status) ==
    /\ SimIngest(status)
    /\ UNCHANGED published

\* time passes
FlagTick(d) ==
    /\ now + d <= StartNow + FlagHorizon
    /\ Tick(d)

InitFlag ==
    /\ now = StartNow
    /\ InitCooldown
    /\ latestSensorData = InitialSensorData
    /\ isCriticalAlertSent = FALSE
    /\ flagPending = 0
    /\ flagSends = 0
    /\ failedUnreset = FALSE
    /\ emailConfigured \in BOOLEAN
    /\ serialState = "detecting"
    /\ simTimers = 0
    /\ InitWs
    /\ InitDash
    /\ InitPred
    /\ InitPoll
    /\ InitArd
    /\ lastLine = NoLine

NextFlag ==
    \/ NoArduinoFound
    \/ SerialOpenFailed
    \/ SerialOpened
    \/ \E line \in SerialLines : SerialData(line)
    \/ SerialClose
    \/ SerialError
    \/ \E status \in SimStatuses : SimTick(status)
    \/ FlagMailSent
    \/ FlagMailFailed
    \/ \E d \in FlagSteps : FlagTick(d)

SpecFlag == InitFlag /\ [][NextFlag]_vars

----------------------------------------------------------------------------
(* The flag backend with WebSocket subscribers *)

\* How many publishes are followed
MaxPublish == 2

\* The statuses of the readings of the subscriber scenario
WsStatuses == {"normal", "critical"}

\* The lines the serial parser delivers in the subscriber scenario: a reading
\* and a line of text
WsLines == {l \in SerialLines : l.status = "warning" /\ ValidLine(l)}
           \cup {l \in SerialLines : ~l.json}

\* wss.on('connection'): the latest value is sent at once
WsConnect(c) ==
    /\ clients[c].readyState \in {"NONE", "CLOSED"}
    /\ clients[c].joins < MaxJoins
    /\ clients' = [clients EXCEPT ![c] =
                      Send([@ EXCEPT !.readyState = "OPEN", !.dead = FALSE,
                                     !.joins = @ + 1],
                           latestSensorData, Len(published), TRUE)]
    /\ UNCHANGED <<now, frontVars, cooldownVars, burst, published, latestSensorData,
                   isCriticalAlertSent, flagPending, flagSends, failedUnreset,
                   emailConfigured, serialState, simTimers>>

\* the peer of an open socket goes away without a close frame
WsPeerLost(c) ==
    /\ clients[c].readyState = "OPEN"
    /\ ~clients[c].dead
    /\ clients' = [clients EXCEPT ![c].dead = TRUE]
    /\ UNCHANGED <<now, frontVars, cooldownVars, burst, published, latestSensorData,
                   isCriticalAlertSent, flagPending, flagSends, failedUnreset,
                   emailConfigured, serialState, simTimers>>

\* a close frame was sent or received: the socket is CLOSING, still in wss.clients
WsClosing(c) ==
    /\ clients[c].readyState = "OPEN"
    /\ clients' = [clients EXCEPT ![c].readyState = "CLOSING", ![c].dead = FALSE]
    /\ UNCHANGED <<now, frontVars, cooldownVars, burst, published, latestSensorData,
                   isCriticalAlertSent, flagPending, flagSends, failedUnreset,
                   emailConfigured, serialState, simTimers>>

\* ws.on('close'): the socket is CLOSED and leaves wss.clients
WsClosed(c) ==
    /\ clients[c].readyState \in {"OPEN", "CLOSING"}
    /\ clients' = [clients EXCEPT ![c].readyState = "CLOSED", ![c].dead = FALSE]
    /\ UNCHANGED <<now, frontVars, cooldownVars, burst, published, latestSensorData,
                   isCriticalAlertSent, flagPending, flagSends, failedUnreset,
                   emailConfigured, serialState, simTimers>>

\* parser.on('data'); the value it publishes is recorded
SerialPublish(line) ==
    /\ SerialIngest(line)
    /\ published' = IF ValidLine(line) THEN Append(published, latestSensorData')
                     ELSE published
    /\ Len(published') <= MaxPublish
    /\ UNCHANGED lastLine

\* one firing of a simulation timer; the value it publishes is recorded
SimPublish(status) ==
    /\ SimIngest(status)
    /\ published' = Append(published, latestSensorData')
    /\ Len(published') <= MaxPublish

\* How many lines the serial parser is followed for when lines of every kind
\* arrive at a backend with subscribers
MaxLines == 3

\* parser.on('data'); the line and the value it publishes are recorded
SerialLine(line) ==
    /\ SerialIngest(line)
    /\ published' = IF ValidLine(line) THEN Append(published, latestSensorData')
                     ELSE published
    /\ Len(published') <= MaxPublish
    /\ lastLine.n < MaxLines
    /\ lastLine' = [n |-> lastLine.n + 1, line |-> line]

NextWs ==
    \/ NoArduinoFound
    \/ SerialOpened
    \/ \E line \in WsLines : SerialPublish(line)
    \/ \E status \in WsStatuses : SimPublish(status)
    \/ \E c \in ClientIds : WsConnect(c)
    \/ \E c \in ClientIds : WsPeerLost(c)
    \/ \E c \in ClientIds : WsClosing(c)
    \/ \E c \in ClientIds : WsClosed(c)

SpecWs == Init /\ [][NextWs]_vars

\* The lines delivered then: every way of being incomplete, with the status
\* that raises an alert, and the complete lines with and without it
ParserLines ==
    {l \in SerialLines : l.status = "norm" \/ (ValidLine(l) /\ l.status = "normal")}
    \cup {l \in SerialLines : ~l.json}

NextSerial ==
    \/ SerialOpened
    \/ \E line \in ParserLines : SerialLine(line)
    \/ FlagMailSent
    \/ \E c \in ClientIds : WsConnect(c)

SpecSerial == Init /\ [][NextSerial]_vars

----------------------------------------------------------------------------
(* The dashboards receiving readings *)

\* How many readings each dashboard is followed for, how many of the first
\* polls may be answered "No data yet", and how many of the first messages of
\* the stream may carry a gyroscope
MaxAppends == 60

MaxNoData == 1

MaxGyro == 2

\* the k-th body GET /latest answers: every channel carries its own value
MpuData(k) ==
    [ax |-> 10 * k + 1, ay |-> 10 * k + 2, az |-> 10 * k + 3,
     gx |-> 10 * k + 4, gy |-> 10 * k + 5, gz |-> 10 * k + 6,
     temperature_c |-> 10 * k + 7, humidity_percent |-> 10 * k + 8]

\* the k-th message of the stream, without and with a gyroscope
StreamData(k) ==
    [n |-> k, accelerometer |-> [x |-> 10 * k + 1, y |-> 10 * k + 2, z |-> 10 * k + 3]]

StreamDataGyro(k) ==
    [n |-> k, accelerometer |-> [x |-> 10 * k + 1, y |-> 10 * k + 2, z |-> 10 * k + 3],
     gyroscope |-> [x |-> 10 * k + 4, y |-> 0, z |-> 10 * k + 6]]

\* fetchMpuData got an answer and gave it to updateHistory
UpdateHistory(data) ==
    /\ Len(fetched) < MaxAppends
    /\ \/ data = MpuData(Len(fetched) + 1)
       \/ /\ data = NoDataYet
          /\ Len(fetched) < MaxNoData
          /\ \A i \in DOMAIN fetched : fetched[i] = NoDataYet
    /\ updateHistory(data)
    /\ fetched' = Append(fetched, data)
    /\ UNCHANGED <<now, cooldownVars, burst, flagVars, graphHistory, streamed, predVars, pollVars, ardVars, lastLine>>

\* ws.onmessage got a message
OnMessage(data) ==
    /\ Len(streamed) < MaxAppends
    /\ \/ data = StreamData(Len(streamed) + 1)
       \/ /\ data = StreamDataGyro(Len(streamed) + 1)
          /\ Len(streamed) < MaxGyro
    /\ onmessage(data)
    /\ streamed' = Append(streamed, data)
    /\ UNCHANGED <<now, cooldownVars, burst, flagVars, mpuHistory, fetched, predVars, pollVars, ardVars, lastLine>>

NextDash ==
    \/ \E data \in {MpuData(Len(fetched) + 1), NoDataYet} : UpdateHistory(data)
    \/ \E data \in {StreamData(Len(streamed) + 1), StreamDataGyro(Len(streamed) + 1)} :
           OnMessage(data)

SpecDash == Init /\ [][NextDash]_vars

----------------------------------------------------------------------------
(* computePredictions applied to one reading *)

\* The readings the classifier is applied to: at rest, on each side of every
\* tier threshold (|a| = 0.9, 1.8, 3.6 with |g| = 0.149 to 0.6), negative,
\* and far beyond the clamp
PredictReadings ==
    {Reading(ax, ay, 0, gx, gy, 0) :
        ax \in {-26000, -900, 0, 900, 1800, 3600, 26000}, ay \in {0, 26000},
        gx \in {-150, 0, 149, 150, 299, 300, 599, 600, 26000}, gy \in {0, 26000}}

\* The values of Math.random() the classifier is applied with
JitterDraws == {0, 500, 999}

InitPredict ==
    /\ now = StartNow
    /\ InitCooldown
    /\ InitFlagIdle
    /\ InitDash
    /\ InitPoll
    /\ InitArd
    /\ lastLine = NoLine
    /\ sample \in [data : PredictReadings, r1 : JitterDraws, r2 : JitterDraws]
    /\ result = Null

\* the backend classifies the reading
PredictServer ==
    /\ result' = [by |-> "server",
                  prediction |-> computePredictions(sample.data, sample.r1, sample.r2)]
    /\ UNCHANGED <<now, cooldownVars, burst, flagVars, dashVars, sample, pollVars, ardVars, lastLine>>

\* the polling dashboard classifies the reading
PredictClient ==
    /\ result' = [by |-> "client",
                  prediction |-> ClientPredictions(sample.data, sample.r1, sample.r2)]
    /\ UNCHANGED <<now, cooldownVars, burst, flagVars, dashVars, sample, pollVars, ardVars, lastLine>>

NextPredict ==
    \/ PredictServer
    \/ PredictClient

SpecPredict == InitPredict /\ [][NextPredict]_vars

----------------------------------------------------------------------------
(* The polling dashboard fetching GET /latest *)

\* How many fetchMpuData calls the dashboard is followed for
MaxFetches == 7

\* 2^n
Pow2(n) == IF n = 0 THEN 1 ELSE IF n = 1 THEN 2 ELSE IF n = 2 THEN 4
           ELSE IF n = 3 THEN 8 ELSE IF n = 4 THEN 16 ELSE 32

\* `Connection failed after ${MAX_RETRIES} attempts. ...`
ErrorFailed == [text |-> "Connection failed after", attempts |-> MAX_RETRIES]

\* `Connection lost. Retrying in ${delay / 1000}s...`
ErrorLost(nextRetryAttempt) ==
    [text |-> "Connection lost. Retrying in", seconds |-> Pow2(nextRetryAttempt)]

\* EFFECT 1 after a render with retryAttempt r and connectionStatus s, the
\* fetches in rest still being in flight: when a dependency changed, the
\* cleanup clears the interval and the effect body runs again, which returns
\* early or sets a new interval and calls fetchMpuData at once
RunEffect(r, s, rest) ==
    IF r = retryAttempt /\ s = connectionStatus
    THEN /\ intervalId' = intervalId
         /\ inflight' = rest
         /\ issued' = issued
    ELSE IF s = "disconnected" /\ r >= MAX_RETRIES
    THEN /\ intervalId' = Null
         /\ inflight' = rest
         /\ issued' = issued
    ELSE /\ issued < MaxFetches
         /\ intervalId' = [fires |-> pollClock + RAW_DATA_FETCH_INTERVAL_MS]
         /\ inflight' = rest \cup {Fetch(issued + 1, r)}
         /\ issued' = issued + 1

\* the interval fires: fetchMpuData of the render the effect ran in
PollTick ==
    /\ intervalId # Null
    /\ issued < MaxFetches
    /\ pollClock' = intervalId.fires
    /\ intervalId' = [fires |-> intervalId.fires + RAW_DATA_FETCH_INTERVAL_MS]
    /\ inflight' = inflight \cup {Fetch(issued + 1, retryAttempt)}
    /\ issued' = issued + 1
    /\ UNCHANGED <<retryAttempt, connectionStatus, error, sensorData, fails, failedAt>>
    /\ UNCHANGED <<now, cooldownVars, burst, flagVars, dashVars, predVars, ardVars, lastLine>>

\* fetch rejected or answered with a status that is not ok: the catch block
FetchFailed(f) ==
    LET nextRetryAttempt == f.retryAttempt + 1
        status == IF nextRetryAttempt >= MAX_RETRIES THEN "disconnected" ELSE "connecting"
    IN  /\ f \in inflight
        /\ f.awaiting = "response"
        /\ retryAttempt' = nextRetryAttempt
        /\ error' = IF nextRetryAttempt >= MAX_RETRIES THEN ErrorFailed
                    ELSE ErrorLost(nextRetryAttempt)
        /\ connectionStatus' = status
        /\ RunEffect(nextRetryAttempt, status, inflight \ {f})
        /\ fails' = fails + 1
        /\ failedAt' = pollClock
        /\ UNCHANGED <<sensorData, pollClock>>
        /\ UNCHANGED <<now, cooldownVars, burst, flagVars, dashVars, predVars, ardVars, lastLine>>

\* fetch answered ok: setRetryAttempt(0), then await response.json()
FetchResponded(f) ==
    /\ f \in inflight
    /\ f.awaiting = "response"
    /\ retryAttempt' = 0
    /\ RunEffect(0, connectionStatus, (inflight \ {f}) \cup {[f EXCEPT !.awaiting = "json"]})
    /\ fails' = 0
    /\ UNCHANGED <<connectionStatus, error, sensorData, pollClock, failedAt>>
    /\ UNCHANGED <<now, cooldownVars, burst, flagVars, dashVars, predVars, ardVars, lastLine>>

\* the body is parsed: the rest of the try block
FetchParsed(f, data) ==
    /\ f \in inflight
    /\ f.awaiting = "json"
    /\ \/ data = MpuData(Len(fetched) + 1)
       \/ data = NoDataYet /\ fetched = <<>>
    /\ sensorData' = data
    /\ updateHistory(data)
    /\ fetched' = Append(fetched, data)
    /\ connectionStatus' = "connected"
    /\ error' = Null
    /\ RunEffect(retryAttempt, "connected", inflight \ {f})
    /\ UNCHANGED <<retryAttempt, pollClock, fails, failedAt>>
    /\ UNCHANGED <<now, cooldownVars, burst, flagVars, graphHistory, streamed, predVars, ardVars, lastLine>>

NextPoll ==
    \/ PollTick
    \/ \E f \in inflight : FetchFailed(f)
    \/ \E f \in inflight : FetchResponded(f)
    \/ \E f \in inflight, data \in {MpuData(Len(fetched) + 1), NoDataYet} : FetchParsed(f, data)

SpecPoll == Init /\ [][NextPoll]_vars

----------------------------------------------------------------------------
(* The stream dashboard (ArduinoSimulation): its WebSocket and its intervals *)

\* How many WebSockets the dashboard creates, and how many intervals can be
\* live at a time
MaxSockets == 3

MaxIntervals == 3

notArdVars == <<now, cooldownVars, burst, flagVars, dashVars, predVars, pollVars, lastLine>>

\* the id setInterval returns: one that no live interval and no ref holds
FreshId ==
    LET used == {t.id : t \in intervals} \cup {pollingIntervalRef, simulationIntervalRef}
        free == (1..(MaxIntervals + 3)) \ used
    IN  CHOOSE i \in free : \A j \in free : i <= j

\* clearInterval(id)
Cleared(live, id) == {t \in live : t.id # id}

\* wsRef.current.close(), if wsRef.current is set
Closed(socks) ==
    IF wsRef # 0 /\ socks[wsRef] \in {"CONNECTING", "OPEN"}
    THEN [socks EXCEPT ![wsRef] = "CLOSING"]
    ELSE socks

\* if (!pollingIntervalRef.current) pollingIntervalRef.current = setInterval(fetchData, 5000)
PollingFallback ==
    IF pollingIntervalRef = 0
    THEN /\ Cardinality(intervals) < MaxIntervals
         /\ pollingIntervalRef' = FreshId
         /\ intervals' = intervals \cup {[id |-> FreshId, kind |-> "polling"]}
    ELSE UNCHANGED <<pollingIntervalRef, intervals>>

\* initWebSocket: new WebSocket(...), wsRef.current = ws
initWebSocket(socks) ==
    /\ Len(socks) < MaxSockets
    /\ sockets' = Append(socks, "CONNECTING")
    /\ wsRef' = Len(socks) + 1

\* ws.onopen
ArdOnOpen(i) ==
    /\ sockets[i] = "CONNECTING"
    /\ sockets' = [sockets EXCEPT ![i] = "OPEN"]
    /\ streamStatus' = "connected"
    /\ intervals' = Cleared(intervals, pollingIntervalRef)
    /\ pollingIntervalRef' = 0
    /\ UNCHANGED <<mounted, useSimulation, useArduino, wsRef, simulationIntervalRef,
                   autoStart, reconnects, notArdVars>>

\* ws.onerror: the connection failed; the close event follows
ArdOnError(i) ==
    /\ sockets[i] \in {"CONNECTING", "OPEN"}
    /\ sockets' = [sockets EXCEPT ![i] = "CLOSING"]
    /\ streamStatus' = "disconnected"
    /\ PollingFallback
    /\ UNCHANGED <<mounted, useSimulation, useArduino, wsRef, simulationIntervalRef,
                   autoStart, reconnects, notArdVars>>

\* ws.onclose: polling fallback, and the 3 s reconnect timeout is set
ArdOnClose(i) ==
    /\ sockets[i] \in {"OPEN", "CLOSING"}
    /\ sockets' = [sockets EXCEPT ![i] = "CLOSED"]
    /\ streamStatus' = "disconnected"
    /\ PollingFallback
    /\ reconnects' = reconnects + 1
    /\ UNCHANGED <<mounted, useSimulation, useArduino, wsRef, simulationIntervalRef,
                   autoStart, notArdVars>>

\* the reconnect timeout fires
ArdReconnect ==
    /\ reconnects > 0
    /\ reconnects' = reconnects - 1
    /\ IF wsRef = 0 \/ sockets[wsRef] # "OPEN"
       THEN initWebSocket(sockets)
       ELSE UNCHANGED <<sockets, wsRef>>
    /\ UNCHANGED <<mounted, streamStatus, useSimulation, useArduino, pollingIntervalRef,
                   simulationIntervalRef, intervals, autoStart, notArdVars>>

\* startSimulation()
dashStartSimulation ==
    /\ Cardinality(Cleared(intervals, pollingIntervalRef)) < MaxIntervals
    /\ useSimulation' = TRUE
    /\ streamStatus' = "connected"
    /\ pollingIntervalRef' = 0
    /\ sockets' = Closed(sockets)
    /\ simulationIntervalRef' = FreshId
    /\ intervals' = Cleared(intervals, pollingIntervalRef)
                        \cup {[id |-> FreshId, kind |-> "simulation"]}
    /\ UNCHANGED <<mounted, useArduino, wsRef, reconnects, notArdVars>>

\* the auto-start timeout fires: the connectionStatus of its closure is the
\* one of the first render, 'connecting'
ArdAutoStart ==
    /\ autoStart
    /\ autoStart' = FALSE
    /\ dashStartSimulation

\* the Simulate button
ArdStartSimulation ==
    /\ mounted
    /\ ~useSimulation /\ ~useArduino /\ streamStatus # "connected"
    /\ dashStartSimulation
    /\ UNCHANGED autoStart

\* the Stop button: stopSimulation()
ArdStopSimulation ==
    /\ mounted
    /\ useSimulation
    /\ useSimulation' = FALSE
    /\ intervals' = Cleared(intervals, simulationIntervalRef)
    /\ simulationIntervalRef' = 0
    /\ initWebSocket(sockets)
    /\ UNCHANGED <<mounted, streamStatus, useArduino, pollingIntervalRef, autoStart,
                   reconnects, notArdVars>>

\* the Connect button: startArduinoConnection(ip)
ArdStartArduinoConnection ==
    /\ mounted
    /\ ~useArduino /\ ~useSimulation
    /\ Cardinality(Cleared(intervals, simulationIntervalRef)) < MaxIntervals
    /\ useArduino' = TRUE
    /\ useSimulation' = FALSE
    /\ streamStatus' = "connecting"
    /\ simulationIntervalRef' = 0
    /\ sockets' = Closed(sockets)
    /\ pollingIntervalRef' = FreshId
    /\ intervals' = Cleared(intervals, simulationIntervalRef)
                        \cup {[id |-> FreshId, kind |-> "polling"]}
    /\ UNCHANGED <<mounted, wsRef, autoStart, reconnects, notArdVars>>

\* the Disconnect button: stopArduinoConnection()
ArdStopArduinoConnection ==
    /\ mounted
    /\ useArduino
    /\ useArduino' = FALSE
    /\ intervals' = Cleared(intervals, pollingIntervalRef)
    /\ pollingIntervalRef' = 0
    /\ streamStatus' = "disconnected"
    /\ UNCHANGED <<mounted, useSimulation, sockets, wsRef, simulationIntervalRef,
                   autoStart, reconnects, notArdVars>>

\* a polling interval fired and its fetch was answered or failed
ArdPollingAnswered(ok) ==
    /\ \E t \in intervals : t.kind = "polling"
    /\ streamStatus' = IF ok THEN "connected" ELSE "disconnected"
    /\ UNCHANGED <<mounted, useSimulation, useArduino, sockets, wsRef, pollingIntervalRef,
                   simulationIntervalRef, intervals, autoStart, reconnects, notArdVars>>

\* the cleanup of the effect: the refs are not reset, the timeouts not cleared
ArdUnmount ==
    /\ mounted
    /\ mounted' = FALSE
    /\ sockets' = Closed(sockets)
    /\ intervals' = Cleared(Cleared(intervals, pollingIntervalRef), simulationIntervalRef)
    /\ UNCHANGED <<streamStatus, useSimulation, useArduino, wsRef, pollingIntervalRef,
                   simulationIntervalRef, autoStart, reconnects, notArdVars>>

NextArd ==
    \/ \E i \in DOMAIN sockets : ArdOnOpen(i)
    \/ \E i \in DOMAIN sockets : ArdOnError(i)
    \/ \E i \in DOMAIN sockets : ArdOnClose(i)
    \/ ArdReconnect
    \/ ArdAutoStart
    \/ ArdStartSimulation
    \/ ArdStopSimulation
    \/ ArdStartArduinoConnection
    \/ ArdStopArduinoConnection
    \/ \E ok \in BOOLEAN : ArdPollingAnswered(ok)
    \/ ArdUnmount

SpecArd == Init /\ [][NextArd]_vars

----------------------------------------------------------------------------
(* Claims about the cooldown backend *)

LastSend == mailLog[Len(mailLog)]

\* the latest accepted reading is severe and was handled after an earlier
\* notification and right after a non-severe reading
SevereAfterNonSevere ==
    /\ LatestCondition = "severe"
    /\ hist.prev \in {"normal", "minor", "moderate"}
    /\ hist.since < hist.at

\* C1: any two calls of transporter.sendMail are more than ALERT_COOLDOWN_MS
\* apart, whatever readings arrive and however they interleave.
C1_SendsApart ==
    \A i, j \in DOMAIN mailLog : i < j => mailLog[j] - mailLog[i] > ALERT_COOLDOWN_MS

\* two sends happened, as close to each other as the cooldown allows, and the
\* latest severe reading sent nothing
C1_Witness ==
    /\ Len(mailLog) = 2
    /\ mailLog[2] - mailLog[1] = ALERT_COOLDOWN_MS + 1
    /\ LatestCondition = "severe"
    /\ ~hist.alerted

\* C2: a run of consecutive severe readings arriving within one second (10 of
\* them in particular) makes at most one sendMail call, and exactly one when
\* no mail was sent before it; a further severe reading arriving more than
\* the cooldown after the previous sendMail makes the second call.
C2_BurstSendsOnce ==
    burst.count >= 1
        => /\ burst.sends <= 1
           /\ burst.fresh => burst.sends = 1
           /\ (~burst.fresh /\ burst.gap > ALERT_COOLDOWN_MS) => burst.sends = 1

\* ten severe readings within a second sent one mail, and the severe reading
\* that came after the cooldown sent the second
C2_Witness ==
    /\ burst.before = BurstLen
    /\ burst.beforeSpan = BurstWindow
    /\ burst.count = 1
    /\ ~burst.fresh
    /\ burst.gap > ALERT_COOLDOWN_MS
    /\ burst.sends = 1
    /\ Len(mailLog) = 2

\* C3 as stated: once a notification was sent, a severe reading that follows a
\* non-severe reading sends a notification at once, whatever time has elapsed.
C3_RearmedByNonSevere == SevereAfterNonSevere => hist.alerted

\* C3 amended: in the cooldown backend a non-severe reading does not reset the
\* cooldown; the severe reading that follows it sends a notification exactly
\* when more than ALERT_COOLDOWN_MS has elapsed since the previous notification.
C3_CooldownSurvivesNonSevere ==
    SevereAfterNonSevere => (hist.alerted <=> hist.since > ALERT_COOLDOWN_MS)

\* a notification, then a moderate reading, then a severe reading inside the
\* cooldown, which sent nothing
C3_Witness ==
    /\ SevereAfterNonSevere
    /\ hist.prev = "moderate"
    /\ ~hist.alerted
    /\ mailLog # <<>>
    /\ hist.at > LastSend
    /\ hist.at - LastSend < ALERT_COOLDOWN_MS

\* C4 as stated: a severe reading processed when now - lastAlertTime >= cooldown
\* sends a notification and sets lastAlertTime = now.
C4_AlertAtCooldown ==
    (LatestCondition = "severe" /\ hist.since >= ALERT_COOLDOWN_MS)
        => hist.alerted /\ lastAlertTime = hist.at

\* C4 amended: a severe reading processed when now - lastAlertTime is greater
\* than the cooldown sends a notification and sets lastAlertTime = now; one
\* arriving exactly cooldown milliseconds after the previous alert is suppressed
\* and leaves lastAlertTime as it was.
C4_AlertAfterCooldown ==
    LatestCondition = "severe"
        => /\ hist.since > ALERT_COOLDOWN_MS
               => hist.alerted /\ lastAlertTime = hist.at /\ LastSend = hist.at
           /\ hist.since = ALERT_COOLDOWN_MS
               => ~hist.alerted /\ lastAlertTime = hist.at - ALERT_COOLDOWN_MS

\* a severe reading was processed exactly one cooldown after the alert and
\* sent nothing
C4_Witness ==
    /\ LatestCondition = "severe"
    /\ hist.since = ALERT_COOLDOWN_MS
    /\ ~hist.alerted
    /\ Len(mailLog) = 1
    /\ hist.at - LastSend = ALERT_COOLDOWN_MS

\* C7: a reading missing one of the six axis fields is rejected: it is never
\* classified and never becomes latestData.
C7_MissingAxisRejected ==
    latestData # Null => Axes \subseteq DOMAIN latestData.data

\* C8: a reading that carries all six axis fields (zeros included) is accepted:
\* it is not answered 400, and it is stored as latest with its prediction.
C8_CompleteReadingAccepted ==
    [][\A data \in Readings, r \in DrawPairs :
         (Axes \subseteq DOMAIN data /\ PostData(data, r[1], r[2]))
         => /\ res' # Response400
            /\ latestData' = [data |-> data, prediction |-> Predictions[data][r]]]_vars

\* C9: a step that answers 400 leaves latestData, lastAlertTime and the
\* outstanding sends unchanged and calls sendMail for nothing.
C9_RejectChangesNothing ==
    [][(now' = now /\ res' = Response400)
         => UNCHANGED <<latestData, lastAlertTime, mailLog, pending, hist>>]_vars

\* a request was rejected after readings had been stored and an alert sent
C9_Witness ==
    /\ res = Response400
    /\ latestData # Null
    /\ mailLog # <<>>
    /\ pending # {}

\* C10: a request accepted while a send is outstanding is classified and stored
\* in the step that takes it up, the outstanding sends stay outstanding, and
\* the request is answered in that step unless it starts a send of its own.
C10_IngestNotBlocked ==
    [][(pending # {} /\ now' = now /\ log' = "DATA RECEIVED")
         => /\ latestData' # Null
            /\ hist'.at = now
            /\ pending \subseteq pending'
            /\ IF hist'.alerted
               THEN pending' = pending \cup {[at |-> now, prediction |-> latestData'.prediction]}
               ELSE pending' = pending /\ res' = Response200(latestData'.prediction)]_vars

\* a reading was stored and answered while the send of an earlier one is
\* still outstanding
C10_Witness ==
    /\ pending # {}
    /\ latestData # Null
    /\ \A s \in pending : s.at < hist.at
    /\ ~hist.alerted
    /\ res = Response200(latestData.prediction)

\* C11: GET /latest answers the "No data yet" sentinel exactly when no reading
\* has been accepted so far, and otherwise the most recently accepted reading
\* with its prediction; rejected readings never change what it answers.
C11_LatestIsLastAccepted ==
    "body" \in DOMAIN res
        => /\ res.body = NoDataYet <=> hist.latest = Null
           /\ hist.latest # Null => res.body = hist.latest

\* GET /latest answered the second of two accepted readings, with its prediction
C11_Witness ==
    /\ "body" \in DOMAIN res
    /\ hist.prev # "none"
    /\ res.body = hist.latest
    /\ res.body.prediction = Predictions[res.body.data][<<0, 999>>]

----------------------------------------------------------------------------
(* Claims about both backends *)

\* C5: when a send fails the alert state is what it is after a send that
\* succeeded: lastAlertTime in the cooldown backend stays as the handler set
\* it, isCriticalAlertSent in the flag backend is true.
C5_FailureCommitsAlertState ==
    [][/\ pending' # pending /\ pending' \subseteq pending
            => lastAlertTime' = lastAlertTime
       /\ flagPending' < flagPending
            => isCriticalAlertSent']_vars

\* C6: after a send has failed, no reading starts another send before the
\* flag has been reset (flag backend).
C6_NoRetryAfterFailure ==
    [][failedUnreset => flagSends' = flagSends]_vars

\* C19: every value stored as latest carries a timestamp: the one the reading
\* came with or, when it came with none, one the server gave it.
C19_LatestCarriesTimestamp ==
    /\ latestData # Null
          => Has(latestData.data, "timestamp") \/ Has(latestData, "timestamp")
    /\ Has(latestSensorData, "timestamp")

\* C20: a reading whose status is "critical", processed while no alert is
\* marked sent and e-mail is configured, makes checkAndTriggerAlert start the
\* send of a critical alert (flag backend).
C20_CriticalSendsAlert ==
    [][(/\ latestSensorData' # latestSensorData
        /\ latestSensorData'.status = "critical"
        /\ ~isCriticalAlertSent
        /\ emailConfigured)
         => flagSends' = flagSends + 1]_vars

\* C21: once the send of an alert has been started, no reading starts another
\* while that send is in flight or while the flag is set (flag backend).
C21_FlagPreventsSpam ==
    [][(flagPending > 0 \/ isCriticalAlertSent) => flagSends' = flagSends]_vars

\* C22: while the latest reading has status normal or warning, the alert flag
\* is false, also after a send that was in flight has completed (flag backend).
C22_FlagResetWhenCalm ==
    latestSensorData.status \in {"normal", "warning"} => ~isCriticalAlertSent

C24_ConditionIsTierOfScore ==
    latestData # Null
        => /\ latestData.prediction.condition
                 = TierOfScore(latestData.prediction.degradation_score)
           /\ latestData.prediction.degradation_score
                 = ToFixed3(Degradation(latestData.data))

\* C24 amended: whenever latestData is not null it holds the reading and the
\* prediction of one request, the latest accepted: its condition is the tier
\* of the unrounded clamped degradation of its own axis values, and its
\* degradation_score is that degradation rounded to three decimals.
C24_LatestIsOnePair ==
    latestData # Null
        => /\ latestData = hist.latest
           /\ latestData.prediction.condition = Tier(Degradation(latestData.data))
           /\ latestData.prediction.degradation_score
                 = ToFixed3(Degradation(latestData.data))
           /\ \E r \in DrawPairs :
                 latestData.prediction = Predictions[latestData.data][r]

\* while the send started by a severe reading is in flight, a reading whose
\* degradation is 0.1496 was stored: its score is 0.15, its condition normal
C24_Witness ==
    /\ latestData # Null
    /\ latestData.data = EdgeReading
    /\ latestData.prediction.degradation_score = 150
    /\ latestData.prediction.condition = "normal"
    /\ pending # {}
    /\ hist.prev = "severe"

\* C25: after MAX_RETRIES consecutive failed fetches the polling dashboard
\* is 'disconnected' with the 'Connection failed after 5 attempts' message,
\* the retry counter never exceeds MAX_RETRIES, and once it has given up no
\* further fetch is issued; a successful fetch resets the counter to 0, sets
\* the status to 'connected' and clears the error.
C25_GivesUpAfterMaxRetries ==
    [][/\ fails' >= MAX_RETRIES
           => connectionStatus' = "disconnected" /\ error' = ErrorFailed
       /\ retryAttempt' <= MAX_RETRIES
       /\ (connectionStatus = "disconnected" /\ error = ErrorFailed)
           => issued' = issued
       /\ Len(fetched') > Len(fetched)
           => retryAttempt' = 0 /\ connectionStatus' = "connected" /\ error' = Null]_vars

\* C26: while 'Connection lost. Retrying in 2^n s' is shown after a failed
\* fetch, no fetch is issued before 2^n seconds have elapsed since that
\* failure.
C26_BackoffObserved ==
    [][(issued' > issued /\ error' # Null /\ error'.text = "Connection lost. Retrying in")
           => pollClock' >= failedAt' + error'.seconds * 1000]_vars

\* the line has the field
HasField(v) == v # "absent"

\* C30: in the serial ingest path a line changes latestSensorData, runs the
\* alert check and is broadcast only if it parses as JSON and has both a
\* sensors and a timestamp field; any other line leaves latestSensorData and
\* the alert flag unchanged, sends nothing to any subscriber and starts no
\* e-mail, and the parser keeps processing lines; a line whose two fields
\* are truthy becomes the latest reading, with the server's time, and is
\* published.
C30_OnlyCompleteLinesPublish ==
    [][lastLine' # lastLine =>
         LET line == lastLine'.line
             complete == line.json /\ HasField(line.sensors) /\ HasField(line.timestamp)
         IN  /\ ~complete
                 => /\ latestSensorData' = latestSensorData
                    /\ isCriticalAlertSent' = isCriticalAlertSent
                    /\ flagPending' = flagPending
                    /\ flagSends' = flagSends
                    /\ clients' = clients
                    /\ published' = published
                    /\ serialState' = "open"
             /\ (line.json /\ line.sensors = "truthy" /\ line.timestamp = "truthy")
                 => /\ latestSensorData'
                         = [status |-> line.status, timestamp |-> now, source |-> "serial"]
                    /\ published' = Append(published, latestSensorData')
                    /\ \A c \in ClientIds :
                         (clients[c].readyState = "OPEN" /\ ~clients[c].dead)
                             => /\ Len(clients'[c].inbox) = Len(clients[c].inbox) + 1
                                /\ clients'[c].inbox[Len(clients'[c].inbox)].data
                                     = latestSensorData'
                    /\ (line.status = "norm" /\ ~isCriticalAlertSent /\ emailConfigured)
                         => flagSends' = flagSends + 1]_vars

\* after two lines that were dropped (one of them not JSON), the third line
\* was published to an open subscriber
C30_Witness ==
    /\ lastLine.n = 3
    /\ ValidLine(lastLine.line)
    /\ Len(published) = 1
    /\ latestSensorData.source = "serial"
    /\ \E c \in ClientIds :
         /\ clients[c].readyState = "OPEN"
         /\ clients[c].inbox # <<>>
         /\ clients[c].inbox[Len(clients[c].inbox)].data = latestSensorData

\* C29: in the stream dashboard at most one polling interval and at most
\* one simulation interval are live, each live interval is the one its ref
\* (pollingIntervalRef, simulationIntervalRef) holds, and after unmount no
\* interval is live.
C29_OneIntervalEach ==
    /\ Cardinality({t \in intervals : t.kind = "polling"}) <= 1
    /\ Cardinality({t \in intervals : t.kind = "simulation"}) <= 1
    /\ \A t \in intervals :
         t.id = IF t.kind = "polling" THEN pollingIntervalRef ELSE simulationIntervalRef
    /\ ~mounted => intervals = {}

\* C27: in the cooldown backend lastAlertTime changes only in a step that
\* calls sendMail for a severe reading, where it becomes the current time and
\* grows; a step that accepts a reading that is not severe, or a severe one
\* inside the cooldown, calls sendMail for nothing and leaves it unchanged.
C27_LastAlertTimeFrame ==
    [][/\ lastAlertTime' # lastAlertTime
            => /\ mailLog' = Append(mailLog, now)
               /\ lastAlertTime' = now
               /\ lastAlertTime' > lastAlertTime
               /\ hist'.alerted
               /\ latestData'.prediction.condition = "severe"
       /\ (/\ now' = now
           /\ log' = "DATA RECEIVED"
           /\ \/ latestData'.prediction.condition # "severe"
              \/ hist'.since <= ALERT_COOLDOWN_MS)
            => /\ lastAlertTime' = lastAlertTime
               /\ mailLog' = mailLog
               /\ pending' = pending]_vars

\* after an alert, a severe reading inside the cooldown was accepted and left
\* lastAlertTime at the time of that alert
C27_Witness ==
    /\ LatestCondition = "severe"
    /\ ~hist.alerted
    /\ hist.since > 0
    /\ hist.since < ALERT_COOLDOWN_MS
    /\ Len(mailLog) = 1
    /\ lastAlertTime = mailLog[1]
    /\ lastAlertTime < hist.at

\* C28: at most one simulation timer is ever active, whatever serial-port
\* events happen (flag backend).
C28_SingleSimTimer == simTimers <= 1

----------------------------------------------------------------------------
(* Claims about the WebSocket subscribers of the flag backend *)

\* the message a subscriber is sent for the latest publish
LatestMessage(join) ==
    [data |-> published[Len(published)], n |-> Len(published), join |-> join]

\* C12: a subscriber that connects after n >= 1 publishes is sent exactly one
\* message at once, the n-th published value; a subscriber that connects
\* before any publish is sent nothing, as no value exists yet.
C12_LateJoin ==
    [][\A c \in ClientIds :
         (clients[c].readyState # "OPEN" /\ clients'[c].readyState = "OPEN")
         => IF published = <<>>
            THEN clients'[c].inbox = clients[c].inbox
            ELSE clients'[c].inbox = Append(clients[c].inbox, LatestMessage(TRUE))]_vars

\* C13: in the step that publishes a value, every subscriber whose socket is
\* open and whose peer is there is delivered that value, whatever the state of
\* the other subscribers, and nothing is delivered to any other subscriber.
C13_SubscriberIsolation ==
    [][Len(published') = Len(published) + 1
         => \A c \in ClientIds :
              clients'[c].inbox =
                  IF clients[c].readyState = "OPEN" /\ ~clients[c].dead
                  THEN Append(clients[c].inbox,
                              [data |-> latestSensorData', n |-> Len(published'),
                               join |-> FALSE])
                  ELSE clients[c].inbox]_vars

\* the latest publish reached subscriber 2 while the socket of subscriber 1,
\* which had been served before, is closing
C13_Witness ==
    /\ published # <<>>
    /\ clients[1].readyState = "CLOSING"
    /\ clients[1].inbox # <<>>
    /\ clients[1].inbox[Len(clients[1].inbox)].n < Len(published)
    /\ clients[2].readyState = "OPEN"
    /\ clients[2].inbox # <<>>
    /\ clients[2].inbox[Len(clients[2].inbox)] = LatestMessage(FALSE)

\* C14: the messages delivered to one subscriber are values of the publish
\* sequence (or the value held at start-up) in publish order: a message sent
\* by a publish is of a later publish than the message before it, and a
\* message sent on (re)connection is of the latest publish, which may repeat
\* the message before it.
C14_PublishOrder ==
    \A c \in ClientIds :
        LET box == clients[c].inbox
        IN  /\ \A i \in DOMAIN box :
                  /\ box[i].n \in 0 .. Len(published)
                  /\ box[i].data = IF box[i].n = 0 THEN InitialSensorData
                                   ELSE published[box[i].n]
            /\ \A i \in 2 .. Len(box) :
                  IF box[i].join THEN box[i].n >= box[i - 1].n
                  ELSE box[i].n > box[i - 1].n

\* a subscriber joined, was delivered two publishes in order, left, and was
\* sent the second again when it joined again
C14_Witness ==
    \E c \in ClientIds :
        LET box == clients[c].inbox
        IN  /\ Len(box) = 4
            /\ box[1].join /\ ~box[2].join /\ ~box[3].join /\ box[4].join
            /\ box[2].n < box[3].n
            /\ box[4].n = box[3].n
            /\ box[2].data # box[3].data

----------------------------------------------------------------------------
(* Claims about the dashboards *)

\* the arrival whose value is at position i of a buffer, after n appends
Arrival(n, i) == n - Min(n, 50) + i

\* C15: after n appends every history buffer holds exactly the last min(n, 50)
\* appended values in arrival order, so its length never exceeds 50 and the
\* buffers updated by the same update have equal length.
C15_RollingHistory ==
    /\ \A ch \in MpuChannels :
          /\ Len(mpuHistory[ch]) = Min(Len(fetched), 50)
          /\ \A i \in DOMAIN mpuHistory[ch] :
                mpuHistory[ch][i] = Field(fetched[Arrival(Len(fetched), i)], ch)
    /\ \A ch \in GraphChannels :
          /\ Len(graphHistory[ch]) = Min(Len(streamed), 50)
          /\ \A i \in DOMAIN graphHistory[ch] :
                graphHistory[ch][i] = GraphValue(streamed[Arrival(Len(streamed), i)], ch)

\* 60 values were appended to each dashboard: the buffers hold the 11th to the
\* 60th, the first of which were a "No data yet" answer and messages with a
\* gyroscope
C15_Witness ==
    /\ Len(fetched) = 60
    /\ fetched[1] = NoDataYet
    /\ Len(mpuHistory["ax"]) = 50
    /\ mpuHistory["ax"][1] = 111
    /\ mpuHistory["humidity_percent"][50] = 608
    /\ Len(streamed) = 60
    /\ Has(streamed[2], "gyroscope")
    /\ graphHistory["data"][1] = 11
    /\ graphHistory["gyroZ"][50] = 0

----------------------------------------------------------------------------
(* Claims about computePredictions *)

TierRank(condition) ==
    CASE condition = "normal" -> 0
      [] condition = "minor" -> 1
      [] condition = "moderate" -> 2
      [] condition = "severe" -> 3

\* degradations on both sides of every threshold, in millionths
TierScores == {0, 149999, 150000, 299999, 300000, 599999, 600000, 1000000}

\* C16: for a reading that carries six numbers, however large, and for every
\* value of the jitter, degradation_score, forecast_30d and confidence are
\* within [0, 1] after rounding.
C16_ScoresInUnitInterval ==
    result # Null
        => \A f \in {"degradation_score", "forecast_30d", "confidence"} :
              result.prediction[f] \in 0 .. 1000

\* a reading of 26 on four axes with the largest jitter: score and forecast
\* are clamped to 1, the confidence is at its lowest
C16_Witness ==
    /\ result # Null
    /\ sample.data = Reading(26000, 26000, 0, 26000, 26000, 0)
    /\ sample.r1 = 999 /\ sample.r2 = 999
    /\ result.prediction.degradation_score = 1000
    /\ result.prediction.forecast_30d = 1000
    /\ result.prediction.confidence = 920

\* C17: the condition is normal below 0.15, minor from 0.15 to below 0.30,
\* moderate from 0.30 to below 0.60 and severe from 0.60 on; exactly 0.15 is
\* minor and 0.149999 is normal, and a larger degradation never has a lower
\* tier.
C17_TiersClosedOpen ==
    result # Null
        => LET d == Degradation(sample.data)
               condition == result.prediction.condition
           IN  /\ d < 150000 => condition = "normal"
               /\ (150000 <= d /\ d < 300000) => condition = "minor"
               /\ (300000 <= d /\ d < 600000) => condition = "moderate"
               /\ 600000 <= d => condition = "severe"
               /\ Tier(150000) = "minor" /\ Tier(149999) = "normal"
               /\ \A e \in TierScores :
                     /\ e <= d => TierRank(Tier(e)) <= TierRank(condition)
                     /\ d <= e => TierRank(condition) <= TierRank(Tier(e))

\* a reading whose degradation is exactly 0.15 was classified minor
C17_Witness ==
    /\ result # Null
    /\ Degradation(sample.data) = 150000
    /\ result.prediction.condition = "minor"
    /\ result.prediction.degradation_score = 150

\* C18: the all-zero reading has degradation_score 0 and condition normal,
\* for every value of the jitter.
C18_ZeroReadingNormal ==
    (result # Null /\ sample.data = ZeroReading)
        => /\ result.prediction.degradation_score = 0
           /\ result.prediction.condition = "normal"

\* the all-zero reading was classified by the dashboard under the largest jitter
C18_Witness ==
    /\ result # Null
    /\ result.by = "client"
    /\ sample = [data |-> ZeroReading, r1 |-> 999, r2 |-> 999]
    /\ result.prediction.degradation_score = 0
    /\ result.prediction.forecast_30d = 100

====
